---------------------------- MODULE Spec2Model ----------------------------
(***************************************************************************)
(* VCF Claim Value Estimator: the projection-and-discounting engine of the *)
(* VCFEstimator React component, its lookup tables and helper functions,   *)
(* and the component's state (useState fields, the two useMemo caches and  *)
(* every onChange handler of the form).                                    *)
(*                                                                         *)
(* JavaScript numbers are modelled as exact rationals.  TLC integers are   *)
(* 32 bits wide, so a rational is a signed arbitrary-precision numerator   *)
(* (little-endian limbs in base 10^4) over a factored denominator (a bag   *)
(* of small integer factors: powers of 10 from the decimal literals and    *)
(* powers of the numerator of 1 + disc from discounting).  Floating-point  *)
(* rounding and the non-finite values (NaN, Infinity) are outside the      *)
(* model: every input stays in the domain where the arithmetic is finite.  *)
(***************************************************************************)
EXTENDS Integers, Sequences, FiniteSets, TLC

\* ------------------------------------------------------------------------
\* Exact arithmetic: magnitudes (sequences of limbs, least significant first)
\* ------------------------------------------------------------------------

LimbBase == 10 ^ 4

Max(a, b) == IF a >= b THEN a ELSE b
Min(a, b) == IF a <= b THEN a ELSE b

Limb(s, i) == IF i <= Len(s) THEN s[i] ELSE 0

RECURSIVE Trim(_)
Trim(s) ==
    IF s = <<>> THEN s
    ELSE IF s[Len(s)] = 0 THEN Trim(SubSeq(s, 1, Len(s) - 1)) ELSE s

\* limbs from i on of s plus the carry c, every limb brought below LimbBase
RECURSIVE Carry(_, _, _)
Carry(s, i, c) ==
    IF i > Len(s)
    THEN IF c = 0 THEN <<>> ELSE <<c % LimbBase>> \o Carry(s, i, c \div LimbBase)
    ELSE <<(s[i] + c) % LimbBase>> \o Carry(s, i + 1, (s[i] + c) \div LimbBase)

RECURSIVE Borrow(_, _, _)
Borrow(s, i, c) ==
    IF i > Len(s) THEN <<>>
    ELSE IF s[i] < c THEN <<s[i] - c + LimbBase>> \o Borrow(s, i + 1, 1)
    ELSE <<s[i] - c>> \o Borrow(s, i + 1, 0)

MagAdd(a, b) ==
    Carry([i \in 1..Max(Len(a), Len(b)) |-> Limb(a, i) + Limb(b, i)], 1, 0)

\* a - b for a >= b
MagSub(a, b) == Trim(Borrow([i \in 1..Len(a) |-> a[i] - Limb(b, i)], 1, 0))

\* a >= b, from limb i down
RECURSIVE MagGeAt(_, _, _)
MagGeAt(a, b, i) ==
    IF i = 0 THEN TRUE
    ELSE IF a[i] # b[i] THEN a[i] > b[i]
    ELSE MagGeAt(a, b, i - 1)

MagGe(a, b) == IF Len(a) # Len(b) THEN Len(a) > Len(b) ELSE MagGeAt(a, b, Len(a))

\* a * f for 0 < f < 200000 (a limb times f plus a carry stays below 2^31)
MagMulSmall(a, f) == Carry([i \in 1..Len(a) |-> a[i] * f], 1, 0)

\* a * LimbBase
MagShift(a) == IF a = <<>> THEN a ELSE <<0>> \o a

\* a * (b[j] + b[j+1] * LimbBase + ...)
RECURSIVE MagMulFrom(_, _, _)
MagMulFrom(a, b, j) ==
    IF j > Len(b) THEN <<>>
    ELSE MagAdd(Trim(MagMulSmall(a, b[j])), MagShift(MagMulFrom(a, b, j + 1)))

MagMul(a, b) == MagMulFrom(a, b, 1)

\* a * f^k; four factors of 10 are one limb
RECURSIVE MagTimesPow(_, _, _)
MagTimesPow(a, f, k) ==
    IF k = 0 THEN a
    ELSE IF f = 10 /\ k >= 4 THEN MagTimesPow(MagShift(a), f, k - 4)
    ELSE MagTimesPow(MagMulSmall(a, f), f, k - 1)

\* floor(a / f) for 0 < f < 200000, from the most significant limb down
RECURSIVE MagDivSmallFrom(_, _, _, _)
MagDivSmallFrom(a, f, i, rem) ==
    IF i = 0 THEN <<>>
    ELSE MagDivSmallFrom(a, f, i - 1, (rem * LimbBase + a[i]) % f)
         \o <<(rem * LimbBase + a[i]) \div f>>

MagDivSmall(a, f) == Trim(MagDivSmallFrom(a, f, Len(a), 0))

RECURSIVE MagOf(_)
MagOf(k) == IF k = 0 THEN <<>> ELSE <<k % LimbBase>> \o MagOf(k \div LimbBase)

\* the value of a magnitude of at most two limbs
MagToInt(a) == Limb(a, 1) + LimbBase * Limb(a, 2)

\* ------------------------------------------------------------------------
\* Signed integers
\* ------------------------------------------------------------------------

Big(neg, mag) == [neg |-> neg /\ mag # <<>>, mag |-> mag]
BigOf(k) == [neg |-> k < 0, mag |-> MagOf(IF k < 0 THEN -k ELSE k)]
BigNeg(a) == Big(~a.neg, a.mag)
BigSign(a) == IF a.mag = <<>> THEN 0 ELSE IF a.neg THEN -1 ELSE 1

\* a + b for opposite signs; ge: |a| >= |b|
BigCancel(a, b, ge) ==
    Big(IF ge THEN a.neg ELSE b.neg,
        MagSub(IF ge THEN a.mag ELSE b.mag, IF ge THEN b.mag ELSE a.mag))

BigAdd(a, b) ==
    IF a.neg = b.neg THEN Big(a.neg, MagAdd(a.mag, b.mag))
    ELSE BigCancel(a, b, MagGe(a.mag, b.mag))

BigMul(a, b) == Big(a.neg # b.neg, MagMul(a.mag, b.mag))

BigToInt(a) == IF a.neg THEN -MagToInt(a.mag) ELSE MagToInt(a.mag)

\* floor(a / f) for a small positive f: below zero, minus the ceiling of |a| / f
BigFloorDiv(a, f) ==
    Big(a.neg, MagDivSmall(IF a.neg THEN MagAdd(a.mag, MagOf(f - 1)) ELSE a.mag, f))

\* ------------------------------------------------------------------------
\* Denominators: bags of small factors, factor |-> exponent
\* ------------------------------------------------------------------------

DenOne == [f \in {} |-> 0]
DenPow(f, k) == [g \in (IF k = 0 \/ f = 1 THEN {} ELSE {f}) |-> k]
DenExp(d, f) == IF f \in DOMAIN d THEN d[f] ELSE 0
DenMul(a, b) == [f \in DOMAIN a \cup DOMAIN b |-> DenExp(a, f) + DenExp(b, f)]
DenLcm(a, b) == [f \in DOMAIN a \cup DOMAIN b |-> Max(DenExp(a, f), DenExp(b, f))]
DenTimes(d, t) == [f \in (IF t = 0 THEN {} ELSE DOMAIN d) |-> d[f] * t]
\* a / b for b dividing a
DenQuot(a, b) ==
    [f \in {g \in DOMAIN a : a[g] > DenExp(b, g)} |-> a[f] - DenExp(b, f)]

\* a times every factor of d left in fs
RECURSIVE MagTimesDen(_, _, _)
MagTimesDen(a, d, fs) ==
    IF fs = {} \/ a = <<>> THEN a
    ELSE MagTimesDen(MagTimesPow(a, CHOOSE x \in fs : TRUE, d[CHOOSE x \in fs : TRUE]),
                     d, fs \ {CHOOSE x \in fs : TRUE})

BigTimesDen(n, d) == [neg |-> n.neg, mag |-> MagTimesDen(n.mag, d, DOMAIN d)]

\* ------------------------------------------------------------------------
\* Rationals: the model of a JavaScript number
\* ------------------------------------------------------------------------

Rat(n, d) == [n |-> n, d |-> d]
\* the decimal literal m * 10^-s
Dec(m, s) == [n |-> BigOf(m), d |-> DenPow(10, s)]
Zero == Dec(0, 0)
One == Dec(1, 0)

\* a + b over the common denominator L
RatAddOver(a, b, L) ==
    Rat(BigAdd(BigTimesDen(a.n, DenQuot(L, a.d)), BigTimesDen(b.n, DenQuot(L, b.d))), L)
RatAdd(a, b) == RatAddOver(a, b, DenLcm(a.d, b.d))
RatNeg(a) == Rat(BigNeg(a.n), a.d)
RatSub(a, b) == RatAdd(a, RatNeg(b))
RatMul(a, b) == Rat(BigMul(a.n, b.n), DenMul(a.d, b.d))
RatSign(a) == BigSign(a.n)
RatLt(a, b) == RatSign(RatSub(a, b)) < 0
RatLe(a, b) == RatSign(RatSub(a, b)) <= 0
RatEq(a, b) == RatSign(RatSub(a, b)) = 0
RatMax(a, b) == IF RatLt(a, b) THEN b ELSE a

\* a / b^t, for b a positive number whose numerator is a single small factor
\* (1 + disc for a decimal disc > -1): Math.pow followed by the division
RatDivPow(a, b, t) ==
    Rat(BigTimesDen(a.n, DenTimes(b.d, t)),
        DenMul(a.d, DenPow(MagToInt(b.n.mag), t)))

\* floor of a decimal number (denominator a power of 10)
RECURSIVE BigFloorDiv10(_, _)
BigFloorDiv10(n, k) == IF k = 0 THEN n ELSE BigFloorDiv10(BigFloorDiv(n, 10), k - 1)
RatFloor(a) == BigToInt(BigFloorDiv10(a.n, DenExp(a.d, 10)))
\* Math.round: the nearest integer, halves towards +Infinity
RatRound(a) == RatFloor(RatAdd(a, Dec(5, 1)))

\* ------------------------------------------------------------------------
\* Bounds of the model
\* ------------------------------------------------------------------------

\* state updates explored from the first render
MaxChanges == 2
\* dependents per call of getChildCountUnder23, their ages, the year offsets
MaxDeps == 3
MaxChildAge == 23
MaxYearIndex == 24
\* rows of a sample bracket table
MaxRows == 3
\* children passed to interpolateConsumption
MaxChildren == 3
\* ages passed to ageGrowth, discountRateAfterTaxForAge and lookupWorklife
MaxAge == 75

\* ------------------------------------------------------------------------
\* Data & helpers
\* ------------------------------------------------------------------------

\* rate: in ten-thousandths (0.1482 is 1482)
NY_EFFECTIVE_TAX_TABLE ==
    << [income |-> 10000, rate |-> 1482],
       [income |-> 20000, rate |-> 1481],
       [income |-> 25000, rate |-> 1479],
       [income |-> 30000, rate |-> 1386],
       [income |-> 35000, rate |-> 1293],
       [income |-> 40000, rate |-> 1345],
       [income |-> 45000, rate |-> 1396],
       [income |-> 50000, rate |-> 1474],
       [income |-> 60000, rate |-> 1551],
       [income |-> 70000, rate |-> 1629],
       [income |-> 80000, rate |-> 1706],
       [income |-> 90000, rate |-> 1864],
       [income |-> 100000, rate |-> 2021],
       [income |-> 125000, rate |-> 2180],
       [income |-> 150000, rate |-> 2338],
       [income |-> 175000, rate |-> 2497],
       [income |-> 200000, rate |-> 2655],
       [income |-> 225000, rate |-> 3017],
       [income |-> 350000, rate |-> 3378] >>

\* the for loop of interpolateTaxRate: from row i on, with the rate so far
RECURSIVE TaxScan(_, _, _, _)
TaxScan(income, table, i, rate) ==
    IF i > Len(table) THEN rate
    ELSE IF RatLe(Dec(table[i].income, 0), income)
         THEN TaxScan(income, table, i + 1, table[i].rate)
         ELSE rate

RECURSIVE TaxScanStrict(_, _, _, _)
TaxScanStrict(income, table, i, rate) ==
    IF i > Len(table) THEN rate
    ELSE IF RatLt(Dec(table[i].income, 0), income)
         THEN TaxScanStrict(income, table, i + 1, table[i].rate)
         ELSE rate

interpolateTaxRateStrict(income, table) ==
    IF Len(table) = 0 THEN Zero
    ELSE Dec(TaxScanStrict(income, table, 1, table[1].rate), 4)

interpolateTaxRate(income, table) ==
    IF Len(table) = 0 THEN Zero
    ELSE Dec(TaxScan(income, table, 1, table[1].rate), 4)

\* the five share columns: in thousandths (0.779 is 779)
CONSUMPTION_TABLE ==
    << [income |-> 10000, Single0 |-> 779, Single1Plus |-> 185,
        Married0 |-> 370, Married1 |-> 194, Married2Plus |-> 131],
       [income |-> 20000, Single0 |-> 763, Single1Plus |-> 182,
        Married0 |-> 344, Married1 |-> 184, Married2Plus |-> 126],
       [income |-> 25000, Single0 |-> 755, Single1Plus |-> 180,
        Married0 |-> 330, Married1 |-> 180, Married2Plus |-> 123],
       [income |-> 30000, Single0 |-> 747, Single1Plus |-> 178,
        Married0 |-> 317, Married1 |-> 175, Married2Plus |-> 121],
       [income |-> 35000, Single0 |-> 753, Single1Plus |-> 185,
        Married0 |-> 290, Married1 |-> 169, Married2Plus |-> 120],
       [income |-> 40000, Single0 |-> 751, Single1Plus |-> 185,
        Married0 |-> 258, Married1 |-> 157, Married2Plus |-> 113],
       [income |-> 45000, Single0 |-> 748, Single1Plus |-> 185,
        Married0 |-> 226, Married1 |-> 145, Married2Plus |-> 107],
       [income |-> 50000, Single0 |-> 732, Single1Plus |-> 184,
        Married0 |-> 219, Married1 |-> 142, Married2Plus |-> 105],
       [income |-> 60000, Single0 |-> 715, Single1Plus |-> 182,
        Married0 |-> 211, Married1 |-> 138, Married2Plus |-> 103],
       [income |-> 70000, Single0 |-> 682, Single1Plus |-> 175,
        Married0 |-> 189, Married1 |-> 126, Married2Plus |-> 94],
       [income |-> 80000, Single0 |-> 641, Single1Plus |-> 165,
        Married0 |-> 172, Married1 |-> 116, Married2Plus |-> 87],
       [income |-> 90000, Single0 |-> 620, Single1Plus |-> 160,
        Married0 |-> 164, Married1 |-> 110, Married2Plus |-> 83],
       [income |-> 100000, Single0 |-> 599, Single1Plus |-> 155,
        Married0 |-> 155, Married1 |-> 105, Married2Plus |-> 80],
       [income |-> 125000, Single0 |-> 548, Single1Plus |-> 143,
        Married0 |-> 143, Married1 |-> 97, Married2Plus |-> 73],
       [income |-> 150000, Single0 |-> 519, Single1Plus |-> 137,
        Married0 |-> 132, Married1 |-> 90, Married2Plus |-> 69],
       [income |-> 175000, Single0 |-> 490, Single1Plus |-> 131,
        Married0 |-> 120, Married1 |-> 84, Married2Plus |-> 84],
       [income |-> 200000, Single0 |-> 337, Single1Plus |-> 96,
        Married0 |-> 100, Married1 |-> 70, Married2Plus |-> 54],
       [income |-> 225000, Single0 |-> 184, Single1Plus |-> 60,
        Married0 |-> 81, Married1 |-> 56, Married2Plus |-> 43] >>

ConsumptionColumnOffByOne(marital, childrenUnder23) ==
    IF marital = "single"
    THEN IF childrenUnder23 >= 1 THEN "Single1Plus" ELSE "Single0"
    ELSE IF childrenUnder23 > 2 THEN "Married2Plus"
    ELSE IF childrenUnder23 = 1 THEN "Married1"
    ELSE "Married0"

\* the column selector col of interpolateConsumption
ConsumptionColumn(marital, childrenUnder23) ==
    IF marital = "single"
    THEN IF childrenUnder23 >= 1 THEN "Single1Plus" ELSE "Single0"
    ELSE IF childrenUnder23 >= 2 THEN "Married2Plus"
    ELSE IF childrenUnder23 = 1 THEN "Married1"
    ELSE "Married0"

\* the for loop of interpolateConsumption: from row i on, with the row so far
RECURSIVE ConsumptionScan(_, _, _, _)
ConsumptionScan(preIncome, table, i, row) ==
    IF i > Len(table) THEN row
    ELSE IF RatLe(Dec(table[i].income, 0), preIncome)
         THEN ConsumptionScan(preIncome, table, i + 1, table[i])
         ELSE row

interpolateConsumption(preIncome, marital, childrenUnder23, table) ==
    IF Len(table) = 0 THEN Zero
    ELSE Dec(ConsumptionScan(preIncome, table, 1, table[1])
                 [ConsumptionColumn(marital, childrenUnder23)], 3)

\* A Dependent (number | "none")
NoChild == [t |-> "none", v |-> 0]
Child(age) == [t |-> "number", v |-> age]

\* ages.reduce of getChildCountUnder23: from element i on, with the count so far
RECURSIVE ChildReduce(_, _, _, _)
ChildReduce(ages, yearIndex, i, acc) ==
    IF i > Len(ages) THEN acc
    ELSE ChildReduce(ages, yearIndex, i + 1,
                     IF ages[i].t = "number" /\ ages[i].v + yearIndex < 23
                     THEN acc + 1 ELSE acc)

RECURSIVE ChildReduceInclusive(_, _, _, _)
ChildReduceInclusive(ages, yearIndex, i, acc) ==
    IF i > Len(ages) THEN acc
    ELSE ChildReduceInclusive(ages, yearIndex, i + 1,
                     IF ages[i].t = "number" /\ ages[i].v + yearIndex <= 23
                     THEN acc + 1 ELSE acc)

getChildCountUnder23Inclusive(ages, yearIndex) ==
    Min(ChildReduceInclusive(ages, yearIndex, 1, 0), 2)

getChildCountUnder23(ages, yearIndex) == Min(ChildReduce(ages, yearIndex, 1, 0), 2)

\* in hundred-thousandths (0.09523 is 9523)
AGE_GROWTH ==
    (18 :> 9523) @@ (19 :> 9364) @@ (20 :> 9209) @@ (21 :> 9057) @@
    (22 :> 8856) @@ (23 :> 8655) @@ (24 :> 8454) @@ (25 :> 8253) @@
    (26 :> 8053) @@ (27 :> 7853) @@ (28 :> 7654) @@ (29 :> 7455) @@
    (30 :> 7256) @@ (31 :> 7058) @@ (32 :> 6860) @@ (33 :> 6663) @@
    (34 :> 6465) @@ (35 :> 6269) @@ (36 :> 6072) @@ (37 :> 5876) @@
    (38 :> 5680) @@ (39 :> 5484) @@ (40 :> 5290) @@ (41 :> 5095) @@
    (42 :> 4901) @@ (43 :> 4707) @@ (44 :> 4514) @@ (45 :> 4321) @@
    (46 :> 4128) @@ (47 :> 3935) @@ (48 :> 3743) @@ (49 :> 3551) @@
    (50 :> 3360) @@ (51 :> 3169)

\* ageGrowth with the fallback applied to every absent age
ageGrowthFallbackBelowTable(age, fallback) ==
    IF age \in DOMAIN AGE_GROWTH THEN Dec(AGE_GROWTH[age], 5) ELSE fallback

ageGrowth(age, fallback) ==
    IF age \in DOMAIN AGE_GROWTH THEN Dec(AGE_GROWTH[age], 5)
    ELSE IF age >= 52 THEN fallback ELSE Dec(3, 2)

\* the bands with the upper boundary one year early
discountRateBoundaryAt54(age) ==
    IF age <= 35 THEN Dec(26, 3)
    ELSE IF age < 54 THEN Dec(24, 3)
    ELSE Dec(21, 3)

discountRateAfterTaxForAge(age) ==
    IF age <= 35 THEN Dec(26, 3)
    ELSE IF age <= 54 THEN Dec(24, 3)
    ELSE Dec(21, 3)

\* years: in hundredths (34.87 is 3487)
WORKLIFE_TABLE ==
    << [age |-> 25, years |-> 3487, exit |-> 60],
       [age |-> 26, years |-> 3404, exit |-> 60],
       [age |-> 27, years |-> 3320, exit |-> 60],
       [age |-> 28, years |-> 3236, exit |-> 60],
       [age |-> 29, years |-> 3151, exit |-> 61],
       [age |-> 30, years |-> 3066, exit |-> 61],
       [age |-> 31, years |-> 2981, exit |-> 61],
       [age |-> 32, years |-> 2894, exit |-> 61],
       [age |-> 33, years |-> 2808, exit |-> 61],
       [age |-> 34, years |-> 2723, exit |-> 61],
       [age |-> 35, years |-> 2637, exit |-> 61],
       [age |-> 36, years |-> 2552, exit |-> 62],
       [age |-> 37, years |-> 2467, exit |-> 62],
       [age |-> 38, years |-> 2383, exit |-> 62],
       [age |-> 39, years |-> 2298, exit |-> 62],
       [age |-> 40, years |-> 2214, exit |-> 62],
       [age |-> 41, years |-> 2130, exit |-> 62],
       [age |-> 42, years |-> 2046, exit |-> 62],
       [age |-> 43, years |-> 1964, exit |-> 63],
       [age |-> 44, years |-> 1882, exit |-> 63],
       [age |-> 45, years |-> 1801, exit |-> 63],
       [age |-> 46, years |-> 1722, exit |-> 63],
       [age |-> 47, years |-> 1642, exit |-> 63],
       [age |-> 48, years |-> 1564, exit |-> 64],
       [age |-> 49, years |-> 1487, exit |-> 64],
       [age |-> 50, years |-> 1413, exit |-> 64],
       [age |-> 51, years |-> 1339, exit |-> 64],
       [age |-> 52, years |-> 1266, exit |-> 65],
       [age |-> 53, years |-> 1193, exit |-> 65],
       [age |-> 54, years |-> 1122, exit |-> 65],
       [age |-> 55, years |-> 1053, exit |-> 66],
       [age |-> 56, years |-> 987, exit |-> 66],
       [age |-> 57, years |-> 921, exit |-> 66],
       [age |-> 58, years |-> 858, exit |-> 67],
       [age |-> 59, years |-> 795, exit |-> 67],
       [age |-> 60, years |-> 736, exit |-> 67],
       [age |-> 61, years |-> 681, exit |-> 68],
       [age |-> 62, years |-> 633, exit |-> 68],
       [age |-> 63, years |-> 590, exit |-> 69],
       [age |-> 64, years |-> 551, exit |-> 70],
       [age |-> 65, years |-> 517, exit |-> 70],
       [age |-> 66, years |-> 489, exit |-> 71],
       [age |-> 67, years |-> 465, exit |-> 72],
       [age |-> 68, years |-> 443, exit |-> 72],
       [age |-> 69, years |-> 421, exit |-> 73],
       [age |-> 70, years |-> 401, exit |-> 74] >>

\* table.find(r => r.age === a): the first matching row
WorklifeFind(table, a) ==
    table[CHOOSE i \in 1..Len(table) :
        /\ table[i].age = a
        /\ \A j \in 1..(i - 1) : table[j].age # a]

\* Math.max(minAge, Math.min(maxAge, Math.round(age)))
WorklifeAge(table, age) == Max(table[1].age, Min(table[Len(table)].age, RatRound(age)))

\* return { years: roundedYears, exitAge }
WorklifeReturn(age, roundedYears) ==
    [years |-> roundedYears, exitAge |-> RatRound(RatAdd(age, Dec(roundedYears, 0)))]

WorklifeEntryFloor(age, entry) == WorklifeReturn(age, RatFloor(Dec(entry.years, 2)))

\* the remaining years rounded up
WorklifeEntryCeil(age, entry) == WorklifeReturn(age, -RatFloor(RatNeg(Dec(entry.years, 2))))

\* const roundedYears = Math.round(entry.years)
WorklifeEntry(age, entry) == WorklifeReturn(age, RatRound(Dec(entry.years, 2)))

\* lookupWorklife with the exit age taken from the clamped, rounded age
lookupWorklifeExitFromClamped(age) ==
    WorklifeEntry(Dec(WorklifeAge(WORKLIFE_TABLE, age), 0),
                  WorklifeFind(WORKLIFE_TABLE, WorklifeAge(WORKLIFE_TABLE, age)))

\* age is a number (a rational); years and exitAge are integers
lookupWorklife(age) ==
    WorklifeEntry(age, WorklifeFind(WORKLIFE_TABLE, WorklifeAge(WORKLIFE_TABLE, age)))

\* ------------------------------------------------------------------------
\* Component state
\* ------------------------------------------------------------------------

VARIABLES
    st,           \* the useState fields of VCFEstimator, by name
    autoWL,       \* useMemo(() => lookupWorklife(ageAtStart), [ageAtStart])
    autoWLDeps,   \* the dependency array autoWL was computed for
    results,      \* useMemo(() => {...}, [mode, ..., unemploymentTiming])
    resultsDeps,  \* the dependency array results was computed for
    changes,      \* number of state updates handled so far
    call          \* the last direct call of a helper: function, arguments, value

vars == <<st, autoWL, autoWLDeps, results, resultsDeps, changes, call>>

\* number | "auto"
Auto == [t |-> "auto", v |-> Zero]
Num(v) == [t |-> "number", v |-> v]

IntRat(k) == Dec(k, 0)

\* const effTax = taxRate === "auto" ? interpolateTaxRate(baseIncome) : taxRate
EffTax(c) ==
    IF c.taxRate.t = "auto"
    THEN interpolateTaxRate(c.baseIncome, NY_EFFECTIVE_TAX_TABLE)
    ELSE c.taxRate.v

\* const disc = discountOverride === "auto" ? discountRateAfterTaxForAge(ageAtStart) : discountOverride
Disc(c) ==
    IF c.discountOverride.t = "auto"
    THEN discountRateAfterTaxForAge(c.ageAtStart)
    ELSE c.discountOverride.v

AfterTaxAtStart(c, effTax) == RatMul(c.baseIncome, RatSub(One, effTax))

EarnGrowth(c, age) ==
    IF c.useAgeSpecificGrowth THEN ageGrowth(age, Dec(3, 2)) ELSE c.earningsGrowthFixed

\* yearConsumption computed in either mode
YearConsumptionAnyMode(c, t) ==
    IF c.manualConsumption THEN c.consumptionPct
    ELSE interpolateConsumption(c.baseIncome, c.marital,
                                getChildCountUnder23(<<c.child1Age, c.child2Age>>, t - 1),
                                CONSUMPTION_TABLE)

\* yearConsumption with the dependents counted at offset t
YearConsumptionAtOffsetT(c, t) ==
    IF c.mode = "wrongfulDeath"
    THEN IF c.manualConsumption THEN c.consumptionPct
         ELSE interpolateConsumption(c.baseIncome, c.marital,
                                     getChildCountUnder23(<<c.child1Age, c.child2Age>>, t),
                                     CONSUMPTION_TABLE)
    ELSE Zero

\* Dynamic consumption (wrongful death only), year t
YearConsumption(c, t) ==
    IF c.mode = "wrongfulDeath"
    THEN LET y == t - 1
             childUnder23Count == getChildCountUnder23(<<c.child1Age, c.child2Age>>, y)
         IN IF c.manualConsumption THEN c.consumptionPct
            ELSE interpolateConsumption(c.baseIncome, c.marital, childUnder23Count,
                                        CONSUMPTION_TABLE)
    ELSE Zero

ConsumptionAmt(c, afterTaxAtStart, yearConsumption) ==
    IF c.mode = "wrongfulDeath" THEN RatMul(afterTaxAtStart, yearConsumption) ELSE Zero

\* the year's amounts, as the row and the discounting read them
Adjusted(unemploymentAdjIncome, postTaxBase, consumptionAmt, afterConsumption, subtotalBeforeDiscount) ==
    [unemploymentAdjIncome |-> unemploymentAdjIncome,
     postTaxBase |-> postTaxBase,
     consumptionAmt |-> consumptionAmt,
     afterConsumption |-> afterConsumption,
     subtotalBeforeDiscount |-> subtotalBeforeDiscount]

\* afterConsumption = postTaxBase - consumptionAmt; subtotal = afterConsumption + med
BeforeMedicalSubtotal(unemploymentAdjIncome, postTaxBase, consumptionAmt, afterConsumption, med) ==
    Adjusted(unemploymentAdjIncome, postTaxBase, consumptionAmt, afterConsumption,
             RatAdd(afterConsumption, med))

BeforeMedicalConsume(unemploymentAdjIncome, postTaxBase, consumptionAmt, med) ==
    BeforeMedicalSubtotal(unemploymentAdjIncome, postTaxBase, consumptionAmt,
                          RatSub(postTaxBase, consumptionAmt), med)

BeforeMedicalTax(c, unemploymentAdjIncome, effTax, afterTaxAtStart, yearConsumption, med) ==
    BeforeMedicalConsume(unemploymentAdjIncome,
                         RatMul(unemploymentAdjIncome, RatSub(One, effTax)),
                         ConsumptionAmt(c, afterTaxAtStart, yearConsumption), med)

BeforeMedicalNoUnemployment(c, incomePlusRet, effTax, afterTaxAtStart, yearConsumption, med) ==
    BeforeMedicalTax(c, incomePlusRet, effTax, afterTaxAtStart, yearConsumption, med)

\* 1) Income+Ret -> 2) unemployment -> 3) tax -> 4) consumption -> 5) +medical
BeforeMedical(c, incomePlusRet, effTax, afterTaxAtStart, yearConsumption, med) ==
    BeforeMedicalTax(c, RatMul(incomePlusRet, RatSub(One, c.unemploymentFactor)),
                     effTax, afterTaxAtStart, yearConsumption, med)

\* subtotalBeforeDiscount = unemploymentAdjIncome
AfterMedicalReturn(unemploymentAdjIncome, postTaxBase, consumptionAmt, afterConsumption) ==
    Adjusted(unemploymentAdjIncome, postTaxBase, consumptionAmt, afterConsumption,
             unemploymentAdjIncome)

\* the unemployment factor applied twice to the legacy subtotal
AfterMedicalUnemploymentTwice(c, postTaxBase, consumptionAmt, afterConsumption, subtotal) ==
    AfterMedicalReturn(RatMul(RatMul(subtotal, RatSub(One, c.unemploymentFactor)),
                              RatSub(One, c.unemploymentFactor)),
                       postTaxBase, consumptionAmt, afterConsumption)

AfterMedicalUnemployment(c, postTaxBase, consumptionAmt, afterConsumption, subtotal) ==
    AfterMedicalReturn(RatMul(subtotal, RatSub(One, c.unemploymentFactor)),
                       postTaxBase, consumptionAmt, afterConsumption)

AfterMedicalSubtotal(c, postTaxBase, consumptionAmt, afterConsumption, med) ==
    AfterMedicalUnemployment(c, postTaxBase, consumptionAmt, afterConsumption,
                             RatAdd(afterConsumption, med))

AfterMedicalConsume(c, postTaxBase, consumptionAmt, med) ==
    AfterMedicalSubtotal(c, postTaxBase, consumptionAmt,
                         RatSub(postTaxBase, consumptionAmt), med)

\* the legacy branch computed in the before-medical order
AfterMedicalAsBeforeMedical(c, incomePlusRet, effTax, afterTaxAtStart, yearConsumption, med) ==
    BeforeMedical(c, incomePlusRet, effTax, afterTaxAtStart, yearConsumption, med)

\* Legacy: tax/consume on income+ret, then add medical, then unemployment
AfterMedical(c, incomePlusRet, effTax, afterTaxAtStart, yearConsumption, med) ==
    AfterMedicalConsume(c, RatMul(incomePlusRet, RatSub(One, effTax)),
                        ConsumptionAmt(c, afterTaxAtStart, yearConsumption), med)

\* rows.push({...}) and pvSum += pv: the loop variables after year t
YearPush(c, loop, effTax, earnGrowth, yearConsumption, salary, med, retirement, incomePlusRet, adj, pv) ==
    [t |-> loop.t + 1,
     salary |-> salary,
     med |-> med,
     pvSum |-> RatAdd(loop.pvSum, pv),
     rows |-> Append(loop.rows,
         [year |-> loop.t,
          age |-> c.ageAtStart + loop.t,
          earnGrowth |-> earnGrowth,
          projectedIncome |-> salary,
          retirement |-> retirement,
          incomePlusRet |-> incomePlusRet,
          taxRate |-> effTax,
          postTaxProjectedIncome |-> adj.postTaxBase,
          consumptionRate |-> yearConsumption,
          consumptionAmt |-> adj.consumptionAmt,
          incomeLessConsumption |-> adj.afterConsumption,
          healthContribution |-> med,
          unemploymentAdjIncome |-> adj.unemploymentAdjIncome,
          postTaxAdjusted |-> adj.subtotalBeforeDiscount,
          discounted |-> pv])]

\* the discounting with the exponent t - 1
YearDiscountFromYearZero(c, loop, effTax, disc, earnGrowth, yearConsumption, salary, med, retirement, incomePlusRet, adj) ==
    YearPush(c, loop, effTax, earnGrowth, yearConsumption, salary, med, retirement,
             incomePlusRet, adj,
             RatDivPow(adj.subtotalBeforeDiscount, RatAdd(One, disc), loop.t - 1))

\* const pv = subtotalBeforeDiscount / Math.pow(1 + disc, t)
YearDiscount(c, loop, effTax, disc, earnGrowth, yearConsumption, salary, med, retirement, incomePlusRet, adj) ==
    YearPush(c, loop, effTax, earnGrowth, yearConsumption, salary, med, retirement,
             incomePlusRet, adj,
             RatDivPow(adj.subtotalBeforeDiscount, RatAdd(One, disc), loop.t))

\* the branch on unemploymentTiming
YearAdjust(c, loop, effTax, disc, afterTaxAtStart, earnGrowth, yearConsumption, salary, med, retirement, incomePlusRet) ==
    YearDiscount(c, loop, effTax, disc, earnGrowth, yearConsumption, salary, med,
                 retirement, incomePlusRet,
                 IF c.unemploymentTiming = "before_medical"
                 THEN BeforeMedical(c, incomePlusRet, effTax, afterTaxAtStart,
                                    yearConsumption, med)
                 ELSE AfterMedical(c, incomePlusRet, effTax, afterTaxAtStart,
                                   yearConsumption, med))

\* const incomePlusRet = salary + retirement
YearIncomePlusRet(c, loop, effTax, disc, afterTaxAtStart, earnGrowth, yearConsumption, salary, med, retirement) ==
    YearAdjust(c, loop, effTax, disc, afterTaxAtStart, earnGrowth, yearConsumption,
               salary, med, retirement, RatAdd(salary, retirement))

\* const retirement = salary * retirementPct
YearRetirement(c, loop, effTax, disc, afterTaxAtStart, earnGrowth, yearConsumption, salary, med) ==
    YearIncomePlusRet(c, loop, effTax, disc, afterTaxAtStart, earnGrowth,
                      yearConsumption, salary, med, RatMul(salary, c.retirementPct))

\* the growth applied from year 2 on: year 1 at the base amounts
YearGrowFromYearTwo(c, loop, effTax, disc, afterTaxAtStart, earnGrowth, yearConsumption) ==
    YearRetirement(c, loop, effTax, disc, afterTaxAtStart, earnGrowth,
                   yearConsumption,
                   IF loop.t = 1 THEN loop.salary
                   ELSE RatMul(loop.salary, RatAdd(One, earnGrowth)),
                   IF loop.t = 1 THEN loop.med
                   ELSE RatMul(loop.med, RatAdd(One, c.medicalGrowth)))

\* salary = salary * (1 + earnGrowth); med = med * (1 + medicalGrowth)
YearGrow(c, loop, effTax, disc, afterTaxAtStart, earnGrowth, yearConsumption) ==
    YearRetirement(c, loop, effTax, disc, afterTaxAtStart, earnGrowth,
                   yearConsumption,
                   RatMul(loop.salary, RatAdd(One, earnGrowth)),
                   RatMul(loop.med, RatAdd(One, c.medicalGrowth)))

\* the year loop body with the automatic tax rate looked up on the running salary
YearStepTaxOfSalary(c, loop, effTax, disc, afterTaxAtStart) ==
    YearGrow(c, loop,
             IF c.taxRate.t = "auto"
             THEN interpolateTaxRate(loop.salary, NY_EFFECTIVE_TAX_TABLE) ELSE effTax,
             disc, afterTaxAtStart,
             EarnGrowth(c, c.ageAtStart + loop.t), YearConsumption(c, loop.t))

\* the body of the year loop: from the loop variables before year t (t, salary,
\* med, pvSum, rows) to the loop variables after it
YearStep(c, loop, effTax, disc, afterTaxAtStart) ==
    YearGrow(c, loop, effTax, disc, afterTaxAtStart,
             EarnGrowth(c, c.ageAtStart + loop.t), YearConsumption(c, loop.t))

\* for (let t = 1; t <= calcYears; t++) {...}
RECURSIVE YearLoop(_, _, _, _, _, _)
YearLoop(c, calcYears, loop, effTax, disc, afterTaxAtStart) ==
    IF loop.t > calcYears THEN loop
    ELSE YearLoop(c, calcYears, YearStep(c, loop, effTax, disc, afterTaxAtStart),
                  effTax, disc, afterTaxAtStart)

\* the offset loop with the first payment undiscounted
RECURSIVE OffsetLoopFromYearZero(_, _, _)
OffsetLoopFromYearZero(c, disc, loop) ==
    IF loop.t > c.offsetYears THEN loop.pvOffset
    ELSE OffsetLoopFromYearZero(c, disc,
             [t |-> loop.t + 1,
              pvOffset |-> RatAdd(loop.pvOffset,
                                  RatDivPow(c.offsetAnnual, RatAdd(One, disc), loop.t - 1))])

\* for (let t = 1; t <= offsetYears; t++) pvOffset += offsetAnnual / Math.pow(1 + disc, t)
RECURSIVE OffsetLoop(_, _, _)
OffsetLoop(c, disc, loop) ==
    IF loop.t > c.offsetYears THEN loop.pvOffset
    ELSE OffsetLoop(c, disc,
             [t |-> loop.t + 1,
              pvOffset |-> RatAdd(loop.pvOffset,
                                  RatDivPow(c.offsetAnnual, RatAdd(One, disc), loop.t))])

PvOffset(c, disc) ==
    RatAdd(IF RatSign(c.offsetAnnual) > 0 /\ c.offsetYears > 0
           THEN OffsetLoop(c, disc, [t |-> 1, pvOffset |-> Zero])
           ELSE Zero,
           c.offsetLumpSum)

NetPVNoFloor(pvSum, pvOffset) == RatSub(pvSum, pvOffset)

\* const netPV = Math.max(0, pvSum - pvOffset)
NetPV(pvSum, pvOffset) == RatMax(Zero, RatSub(pvSum, pvOffset))

\* return { pvSum, pvOffset, netPV, effTax, disc, rows }
ResultsReturn(effTax, disc, loop, pvOffset) ==
    [pvSum |-> loop.pvSum,
     pvOffset |-> pvOffset,
     netPV |-> NetPV(loop.pvSum, pvOffset),
     effTax |-> effTax,
     disc |-> disc,
     rows |-> loop.rows]

ResultsFor(c, calcYears, effTax, disc) ==
    ResultsReturn(effTax, disc,
                  YearLoop(c, calcYears,
                           [t |-> 1, salary |-> c.baseIncome, med |-> c.medicalBase,
                            pvSum |-> Zero, rows |-> <<>>],
                           effTax, disc, AfterTaxAtStart(c, effTax)),
                  PvOffset(c, disc))

\* the body of the results useMemo
Results(c, calcYears) == ResultsFor(c, calcYears, EffTax(c), Disc(c))

\* const calcYears = useFirmWorklife ? autoWL.years : years
CalcYears(c, wl) == IF c.useFirmWorklife THEN wl.years ELSE c.years

\* const expectedExitAge = useFirmWorklife ? autoWL.exitAge : (ageAtStart + years)
ExpectedExitAge(c, wl) == IF c.useFirmWorklife THEN wl.exitAge ELSE c.ageAtStart + c.years

AutoWLDepList(c) == <<c.ageAtStart>>

ResultsDepListNoTiming(c, calcYears) ==
    <<c.mode, c.marital, c.child1Age, c.child2Age, c.ageAtStart, calcYears,
      c.baseIncome, c.taxRate, c.manualConsumption, c.consumptionPct,
      c.useAgeSpecificGrowth, c.earningsGrowthFixed, c.retirementPct,
      c.medicalBase, c.medicalGrowth, c.unemploymentFactor, c.discountOverride,
      c.offsetAnnual, c.offsetYears, c.offsetLumpSum>>

\* the dependency array of the results useMemo
ResultsDepList(c, calcYears) ==
    <<c.mode, c.marital, c.child1Age, c.child2Age, c.ageAtStart, calcYears,
      c.baseIncome, c.taxRate, c.manualConsumption, c.consumptionPct,
      c.useAgeSpecificGrowth, c.earningsGrowthFixed, c.retirementPct,
      c.medicalBase, c.medicalGrowth, c.unemploymentFactor, c.discountOverride,
      c.offsetAnnual, c.offsetYears, c.offsetLumpSum, c.unemploymentTiming>>

DefaultState ==
    [mode |-> "wrongfulDeath",
     ageAtStart |-> 55,
     years |-> 12,
     baseIncome |-> Dec(100000, 0),
     taxRate |-> Auto,
     marital |-> "married",
     child1Age |-> NoChild,
     child2Age |-> NoChild,
     manualConsumption |-> FALSE,
     consumptionPct |-> Dec(105, 3),
     useAgeSpecificGrowth |-> TRUE,
     earningsGrowthFixed |-> Dec(3, 2),
     retirementPct |-> Dec(4, 2),
     medicalBase |-> Dec(7280, 0),
     medicalGrowth |-> Dec(23, 3),
     medicalGrowthMode |-> "cpi",
     unemploymentFactor |-> Dec(6, 2),
     discountOverride |-> Auto,
     unemploymentTiming |-> "before_medical",
     offsetAnnual |-> Zero,
     offsetYears |-> 0,
     offsetLumpSum |-> Zero,
     activeRefTable |-> "tax",
     useFirmWorklife |-> TRUE]

NoCall == [fn |-> "none"]

InitWith(c, wl) ==
    /\ st = c
    /\ autoWL = wl
    /\ autoWLDeps = AutoWLDepList(c)
    /\ results = Results(c, CalcYears(c, wl))
    /\ resultsDeps = ResultsDepList(c, CalcYears(c, wl))
    /\ changes = 0
    /\ call = NoCall

\* the first render: every useState at its initial value, both memos computed
Init == InitWith(DefaultState, lookupWorklife(IntRat(DefaultState.ageAtStart)))

Render(c, wl, calcYears, deps) ==
    /\ st' = c
    /\ autoWL' = wl
    /\ autoWLDeps' = AutoWLDepList(c)
    /\ results' = IF deps # resultsDeps THEN Results(c, calcYears) ELSE results
    /\ resultsDeps' = deps

RenderWith(c, wl) ==
    Render(c, wl, CalcYears(c, wl), ResultsDepList(c, CalcYears(c, wl)))

\* A state update (to a state c other than the current one: React bails out of
\* an update to an identical value) followed by the re-render it schedules:
\* each useMemo recomputes when an element of its dependency array changed
Update(c) ==
    /\ changes < MaxChanges
    /\ RenderWith(c, IF AutoWLDepList(c) # autoWLDeps
                     THEN lookupWorklife(IntRat(c.ageAtStart)) ELSE autoWL)
    /\ changes' = changes + 1
    /\ UNCHANGED call

\* ------------------------------------------------------------------------
\* The form: one action per onChange handler, over the values typed or picked
\* ------------------------------------------------------------------------

Modes == {"injury", "wrongfulDeath"}
Maritals == {"single", "married"}
Timings == {"before_medical", "after_medical"}
MedicalGrowthModes == {"cpi", "cpi_medical", "custom"}
RefTables == {"tax", "worklife", "growth", "consumption", "discount"}

AgeInputs == {50, 55, 70}
YearsInputs == {-1, 0, 3, 12}
IncomeInputs == {Zero, Dec(40000, 0), Dec(100000, 0)}
TaxInputs == {Zero, Dec(25, 2)}
ChildInputs == {NoChild, Child(10), Child(18)}
ConsumptionInputs == {Dec(105, 3), Dec(2, 1)}
GrowthInputs == {Dec(3, 2), Dec(5, 2)}
RetirementInputs == {Zero, Dec(4, 2)}
MedicalBaseInputs == {Zero, Dec(7280, 0)}
MedicalGrowthInputs == {Dec(23, 3), Dec(4, 2)}
UnemploymentInputs == {Zero, Dec(6, 2)}
DiscountInputs == {Zero, Dec(3, 2)}
OffsetAnnualInputs == {Dec(-1000, 0), Zero, Dec(5000, 0)}
OffsetYearsInputs == {0, 3}
OffsetLumpSumInputs == {Zero, Dec(10000000, 0)}

SetMode(v) ==
    v # st.mode /\ Update([st EXCEPT !.mode = v])
SetAgeAtStart(v) ==
    v # st.ageAtStart /\ Update([st EXCEPT !.ageAtStart = v])
SetUseFirmWorklife(v) ==
    v # st.useFirmWorklife /\ Update([st EXCEPT !.useFirmWorklife = v])
\* the years input is disabled while the firm table is in use
SetYears(v) ==
    ~st.useFirmWorklife /\ v # st.years /\ Update([st EXCEPT !.years = v])
SetBaseIncome(v) ==
    v # st.baseIncome /\ Update([st EXCEPT !.baseIncome = v])
\* the Manual switch: onCheckedChange(v) with v the new position
ToggleTaxRate ==
    LET v == (st.taxRate.t = "auto") IN
    Update([st EXCEPT !.taxRate =
        IF v THEN Num(interpolateTaxRate(st.baseIncome, NY_EFFECTIVE_TAX_TABLE)) ELSE Auto])
SetTaxRate(v) ==
    Num(v) # st.taxRate /\ Update([st EXCEPT !.taxRate = Num(v)])
SetMarital(v) ==
    v # st.marital /\ Update([st EXCEPT !.marital = v])
SetChild1Age(v) ==
    v # st.child1Age /\ Update([st EXCEPT !.child1Age = v])
SetChild2Age(v) ==
    v # st.child2Age /\ Update([st EXCEPT !.child2Age = v])
SetManualConsumption(v) ==
    v # st.manualConsumption /\ Update([st EXCEPT !.manualConsumption = v])
\* rendered only under the manual consumption override
SetConsumptionPct(v) ==
    st.manualConsumption /\ v # st.consumptionPct
    /\ Update([st EXCEPT !.consumptionPct = v])
SetUseAgeSpecificGrowth(v) ==
    v # st.useAgeSpecificGrowth /\ Update([st EXCEPT !.useAgeSpecificGrowth = v])
\* rendered only when age-specific growth is off
SetEarningsGrowthFixed(v) ==
    ~st.useAgeSpecificGrowth /\ v # st.earningsGrowthFixed
    /\ Update([st EXCEPT !.earningsGrowthFixed = v])
SetRetirementPct(v) ==
    v # st.retirementPct /\ Update([st EXCEPT !.retirementPct = v])
SetMedicalBase(v) ==
    v # st.medicalBase /\ Update([st EXCEPT !.medicalBase = v])
\* setMedicalGrowthMode(v), then setMedicalGrowth for the two preset modes
MedicalGrowthModeChanged(v) ==
    [st EXCEPT !.medicalGrowthMode = v,
               !.medicalGrowth = IF v = "cpi" THEN Dec(23, 3)
                                 ELSE IF v = "cpi_medical" THEN Dec(304, 4)
                                 ELSE @]
onMedicalGrowthModeChange(v) ==
    MedicalGrowthModeChanged(v) # st /\ Update(MedicalGrowthModeChanged(v))
\* rendered only in the custom growth mode
SetMedicalGrowth(v) ==
    st.medicalGrowthMode = "custom" /\ v # st.medicalGrowth
    /\ Update([st EXCEPT !.medicalGrowth = v])
SetUnemploymentFactor(v) ==
    v # st.unemploymentFactor /\ Update([st EXCEPT !.unemploymentFactor = v])
SetUnemploymentTiming(v) ==
    v # st.unemploymentTiming /\ Update([st EXCEPT !.unemploymentTiming = v])
ToggleDiscountOverride ==
    LET v == (st.discountOverride.t = "auto") IN
    Update([st EXCEPT !.discountOverride =
        IF v THEN Num(discountRateAfterTaxForAge(st.ageAtStart)) ELSE Auto])
SetDiscountOverride(v) ==
    Num(v) # st.discountOverride /\ Update([st EXCEPT !.discountOverride = Num(v)])
SetOffsetAnnual(v) ==
    v # st.offsetAnnual /\ Update([st EXCEPT !.offsetAnnual = v])
SetOffsetYears(v) ==
    v # st.offsetYears /\ Update([st EXCEPT !.offsetYears = v])
SetOffsetLumpSum(v) ==
    v # st.offsetLumpSum /\ Update([st EXCEPT !.offsetLumpSum = v])
SetActiveRefTable(v) ==
    v # st.activeRefTable /\ Update([st EXCEPT !.activeRefTable = v])

Next ==
    \/ \E v \in Modes : SetMode(v)
    \/ \E v \in AgeInputs : SetAgeAtStart(v)
    \/ \E v \in BOOLEAN : SetUseFirmWorklife(v)
    \/ \E v \in YearsInputs : SetYears(v)
    \/ \E v \in IncomeInputs : SetBaseIncome(v)
    \/ ToggleTaxRate
    \/ \E v \in TaxInputs : SetTaxRate(v)
    \/ \E v \in Maritals : SetMarital(v)
    \/ \E v \in ChildInputs : SetChild1Age(v)
    \/ \E v \in ChildInputs : SetChild2Age(v)
    \/ \E v \in BOOLEAN : SetManualConsumption(v)
    \/ \E v \in ConsumptionInputs : SetConsumptionPct(v)
    \/ \E v \in BOOLEAN : SetUseAgeSpecificGrowth(v)
    \/ \E v \in GrowthInputs : SetEarningsGrowthFixed(v)
    \/ \E v \in RetirementInputs : SetRetirementPct(v)
    \/ \E v \in MedicalBaseInputs : SetMedicalBase(v)
    \/ \E v \in MedicalGrowthModes : onMedicalGrowthModeChange(v)
    \/ \E v \in MedicalGrowthInputs : SetMedicalGrowth(v)
    \/ \E v \in UnemploymentInputs : SetUnemploymentFactor(v)
    \/ \E v \in Timings : SetUnemploymentTiming(v)
    \/ ToggleDiscountOverride
    \/ \E v \in DiscountInputs : SetDiscountOverride(v)
    \/ \E v \in OffsetAnnualInputs : SetOffsetAnnual(v)
    \/ \E v \in OffsetYearsInputs : SetOffsetYears(v)
    \/ \E v \in OffsetLumpSumInputs : SetOffsetLumpSum(v)
    \/ \E v \in RefTables : SetActiveRefTable(v)

Spec == Init /\ [][Next]_vars

\* ------------------------------------------------------------------------
\* Direct calls of the helpers, over bounded arguments
\* ------------------------------------------------------------------------

component == <<st, autoWL, autoWLDeps, results, resultsDeps, changes>>

ChildAges == {a \in 0..MaxChildAge : a >= 17 \/ a % 10 = 0}
Dependents == {NoChild} \cup {Child(a) : a \in ChildAges}
RECURSIVE SeqsUpTo(_, _)
SeqsUpTo(S, n) ==
    IF n = 0 THEN {<<>>}
    ELSE LET shorter == SeqsUpTo(S, n - 1) IN
         shorter \cup {Append(s, x) : s \in shorter, x \in S}
AgeLists == SeqsUpTo(Dependents, MaxDeps)

CallGetChildCountUnder23 ==
    /\ call.fn = "none"
    /\ \E ages \in AgeLists, yearIndex \in 0..MaxYearIndex :
          call' = [fn |-> "getChildCountUnder23", ages |-> ages, yearIndex |-> yearIndex,
                   ret |-> getChildCountUnder23(ages, yearIndex)]
    /\ UNCHANGED component

\* the ascending sequence of a finite set of integers
RECURSIVE SortedSeq(_)
SortedSeq(S) ==
    IF S = {} THEN <<>>
    ELSE LET m == CHOOSE x \in S : \A y \in S : x <= y IN <<m>> \o SortedSeq(S \ {m})

\* in ten-thousandths
SampleRates == {1000, 2000}
\* every table of at most MaxRows rows with strictly ascending thresholds
\* among 10000, 20000, ..., MaxRows * 10000 and rates among SampleRates
SampleTaxTables ==
    UNION {{[i \in 1..Len(SortedSeq(S)) |->
                [income |-> SortedSeq(S)[i] * 10000, rate |-> f[SortedSeq(S)[i]]]]
            : f \in [S -> SampleRates]}
           : S \in SUBSET (1..MaxRows)}
TaxTables == {NY_EFFECTIVE_TAX_TABLE} \cup SampleTaxTables

\* the incomes at, just below and just above every threshold, and halfway up
Around(x) == {RatSub(x, One), x, RatAdd(x, One), RatAdd(x, Dec(25005, 1))}
Probes(table) == {Zero} \cup UNION {Around(Dec(table[i].income, 0)) : i \in 1..Len(table)}
TaxProbes == Probes(NY_EFFECTIVE_TAX_TABLE)

CallInterpolateTaxRate ==
    /\ call.fn = "none"
    /\ \E table \in TaxTables, income \in TaxProbes :
          call' = [fn |-> "interpolateTaxRate", income |-> income, table |-> table,
                   ret |-> interpolateTaxRate(income, table)]
    /\ UNCHANGED component

\* a row whose five columns are pairwise different
SampleConsumptionRow(k) ==
    [income |-> k * 10000, Single0 |-> 10 * k + 1, Single1Plus |-> 10 * k + 2,
     Married0 |-> 10 * k + 3, Married1 |-> 10 * k + 4, Married2Plus |-> 10 * k + 5]
SampleConsumptionTables ==
    {[i \in 1..Len(SortedSeq(S)) |-> SampleConsumptionRow(SortedSeq(S)[i])]
     : S \in SUBSET (1..MaxRows)}
ConsumptionTables == {CONSUMPTION_TABLE} \cup SampleConsumptionTables
ConsumptionProbes == Probes(CONSUMPTION_TABLE)

CallInterpolateConsumption ==
    /\ call.fn = "none"
    /\ \E table \in ConsumptionTables, preIncome \in ConsumptionProbes,
          marital \in Maritals, n \in 0..MaxChildren :
          call' = [fn |-> "interpolateConsumption", preIncome |-> preIncome,
                   marital |-> marital, childrenUnder23 |-> n, table |-> table,
                   ret |-> interpolateConsumption(preIncome, marital, n, table)]
    /\ UNCHANGED component

\* integer ages: below, inside and above the tabulated ages and the bands
AgeArgs == (-1)..MaxAge

CallAgeGrowth ==
    /\ call.fn = "none"
    /\ \E age \in AgeArgs, fallback \in GrowthInputs :
          call' = [fn |-> "ageGrowth", age |-> age, fallback |-> fallback,
                   ret |-> ageGrowth(age, fallback)]
    /\ UNCHANGED component

CallDiscountRateAfterTaxForAge ==
    /\ call.fn = "none"
    /\ \E age \in AgeArgs :
          call' = [fn |-> "discountRateAfterTaxForAge", age |-> age,
                   ret |-> discountRateAfterTaxForAge(age)]
    /\ UNCHANGED component

\* numeric ages: every half year of AgeArgs, and tenths next to the halves
WorklifeAgeArgs ==
    {Dec(5 * k, 1) : k \in (-2)..(2 * MaxAge)}
    \cup {Dec(10 * a + d, 1) : a \in {24, 25, 47, 69, 70}, d \in {4, 6}}

CallLookupWorklife ==
    /\ call.fn = "none"
    /\ \E age \in WorklifeAgeArgs :
          call' = [fn |-> "lookupWorklife", age |-> age, ret |-> lookupWorklife(age)]
    /\ UNCHANGED component

\* one direct call per behaviour
LookupNext ==
    \/ CallGetChildCountUnder23
    \/ CallInterpolateTaxRate
    \/ CallInterpolateConsumption
    \/ CallAgeGrowth
    \/ CallDiscountRateAfterTaxForAge
    \/ CallLookupWorklife

LookupSpec == Init /\ [][LookupNext]_vars

\* the form in use, and one direct call of ageGrowth at any point of it
GrowthNext ==
    \/ call.fn = "none" /\ Next
    \/ CallAgeGrowth

GrowthSpec == Init /\ [][GrowthNext]_vars

\* ------------------------------------------------------------------------
\* Properties
\* ------------------------------------------------------------------------

\* the configuration of the worked scenario: start age 55, wrongful death,
\* married, one dependent aged 10, income 100000, firm work-life horizon,
\* before-medical ordering, automatic tax, discount and consumption
Scenario55 ==
    /\ st.ageAtStart = 55
    /\ st.mode = "wrongfulDeath"
    /\ st.marital = "married"
    /\ {st.child1Age, st.child2Age} = {Child(10), NoChild}
    /\ st.baseIncome = Dec(100000, 0)
    /\ st.useFirmWorklife
    /\ st.unemploymentTiming = "before_medical"
    /\ st.taxRate = Auto
    /\ st.discountOverride = Auto
    /\ ~st.manualConsumption

\* the rows are n in number and their attained ages are first, first + 1, ...
RowAgesFrom(rows, n, first) ==
    /\ Len(rows) = n
    /\ \A i \in 1..Len(rows) : rows[i].age = first + i - 1

\* C1 (as the code behaves): in the scenario the firm table's 10.53 remaining
\* years round to a horizon of 11, so the projection has exactly 11 rows, of
\* attained ages 56, 57, ..., 66, and the resolved discount rate is 2.1%.
C1_ScenarioElevenRows ==
    Scenario55 =>
        /\ RowAgesFrom(results.rows, 11, 56)
        /\ RatEq(results.disc, Dec(21, 3))

\* C1 (as stated): in the scenario the projection has exactly 10 rows, of
\* attained ages 56, ..., 65, and the resolved discount rate is 2.1%.
C1_ScenarioTenRows ==
    Scenario55 =>
        /\ RowAgesFrom(results.rows, 10, 56)
        /\ RatEq(results.disc, Dec(21, 3))

C1_ScenarioReached ==
    /\ Scenario55
    /\ Len(results.rows) = 11
    /\ results.rows[11].age = 66
    /\ CalcYears(st, autoWL) = 11

\* the call of getChildCountUnder23 with these ages and year offset returned ret
ChildCountCallReturned(ages, yearIndex, ret) ==
    (call.fn = "getChildCountUnder23" /\ call.ages = ages /\ call.yearIndex = yearIndex)
        => call.ret = ret

\* C2 (as stated): getChildCountUnder23([18, none], 0) = 1, ([18, none], 5) = 1,
\* ([18, none], 6) = 0 and ([18, 10], 5) = 1: a dependent aged 18 is still
\* counted at year offset 5 and first drops out at offset 6.
C2_ChildCountExamples ==
    /\ ChildCountCallReturned(<<Child(18), NoChild>>, 0, 1)
    /\ ChildCountCallReturned(<<Child(18), NoChild>>, 5, 1)
    /\ ChildCountCallReturned(<<Child(18), NoChild>>, 6, 0)
    /\ ChildCountCallReturned(<<Child(18), Child(10)>>, 5, 1)

\* the call the examples of C2 disagree with: [18, none] at offset 5 returns 0
C2_AgedOutAtOffsetFive ==
    /\ call.fn = "getChildCountUnder23"
    /\ call.ages = <<Child(18), NoChild>>
    /\ call.yearIndex = 5
    /\ call.ret = 0

\* the dependents of ages that are numbers and under 23 after yearIndex years
Under23(ages, yearIndex) ==
    {i \in DOMAIN ages : ages[i].t = "number" /\ ages[i].v + yearIndex < 23}

C4_ShippedTaxNonDecreasing ==
    (call.fn = "interpolateTaxRate" /\ call.table = NY_EFFECTIVE_TAX_TABLE) =>
        \A i1 \in TaxProbes :
            RatLt(i1, call.income) =>
                RatLe(interpolateTaxRate(i1, NY_EFFECTIVE_TAX_TABLE), call.ret)

\* the shipped table at 20000: 0.1481, below the 0.1482 it gives at 10000
C4_ShippedTaxDecreases ==
    /\ call.fn = "interpolateTaxRate"
    /\ call.table = NY_EFFECTIVE_TAX_TABLE
    /\ call.income = Dec(20000, 0)
    /\ call.ret = Dec(1481, 4)
    /\ interpolateTaxRate(Dec(10000, 0), NY_EFFECTIVE_TAX_TABLE) = Dec(1482, 4)

\* the thresholds of the table are strictly ascending
Ascending(table) ==
    \A i \in 1..Len(table), j \in 1..Len(table) :
        i < j => table[i].income < table[j].income

\* the rows whose threshold is at most x
RowsAtMost(table, x) == {i \in 1..Len(table) : RatLe(Dec(table[i].income, 0), x)}

\* the row a bracket lookup of x selects: the one of the highest threshold at
\* most x, the first row when x is below every threshold
BracketRow(table, x) ==
    IF RowsAtMost(table, x) = {} THEN 1
    ELSE CHOOSE i \in RowsAtMost(table, x) :
             \A j \in RowsAtMost(table, x) : table[j].income <= table[i].income

\* C5: for any table with strictly ascending thresholds and any income,
\* interpolateTaxRate returns the rate of the row with the highest threshold
\* <= income, the first row's rate when income is below every threshold, 0 for
\* an empty table, and never a value that is not some row's rate; on the
\* shipped table tax(90000) = 0.1864 and tax(100000) = 0.2021.
C5_TaxBracketLookup ==
    (call.fn = "interpolateTaxRate" /\ Ascending(call.table)) =>
        /\ Len(call.table) = 0 => call.ret = Zero
        /\ Len(call.table) > 0 =>
               /\ call.ret = Dec(call.table[BracketRow(call.table, call.income)].rate, 4)
               /\ \E i \in 1..Len(call.table) : call.ret = Dec(call.table[i].rate, 4)
        /\ (call.table = NY_EFFECTIVE_TAX_TABLE /\ call.income = Dec(90000, 0)) =>
               call.ret = Dec(1864, 4)
        /\ (call.table = NY_EFFECTIVE_TAX_TABLE /\ call.income = Dec(100000, 0)) =>
               call.ret = Dec(2021, 4)

\* an income strictly between two thresholds of a sample table of three rows
\* whose rates differ: the lookup returned the lower row's rate
C5_BetweenThresholds ==
    /\ call.fn = "interpolateTaxRate"
    /\ Len(call.table) = 3
    /\ call.table[2].rate # call.table[3].rate
    /\ call.income = RatAdd(Dec(20000, 0), Dec(25005, 1))
    /\ call.ret = Dec(call.table[2].rate, 4)

\* C6: interpolateConsumption(preIncome, marital, n) returns, from the row
\* with the highest threshold <= preIncome (first row if below all, 0 if the
\* table is empty), the column fixed by (marital, n): single and n = 0 is
\* Single0, single and n >= 1 Single1Plus, married and n = 0 Married0, married
\* and n = 1 Married1, married and n >= 2 Married2Plus; in particular
\* consumption(100000, married, 2) = 0.080 on the shipped table.
C6_ConsumptionLookup ==
    call.fn = "interpolateConsumption" =>
        /\ Len(call.table) = 0 => call.ret = Zero
        /\ Len(call.table) > 0 =>
               call.ret =
                   Dec(call.table[BracketRow(call.table, call.preIncome)]
                           [CASE call.marital = "single" /\ call.childrenUnder23 = 0
                                     -> "Single0"
                              [] call.marital = "single" /\ call.childrenUnder23 >= 1
                                     -> "Single1Plus"
                              [] call.marital = "married" /\ call.childrenUnder23 = 0
                                     -> "Married0"
                              [] call.marital = "married" /\ call.childrenUnder23 = 1
                                     -> "Married1"
                              [] call.marital = "married" /\ call.childrenUnder23 >= 2
                                     -> "Married2Plus"], 3)
        /\ (/\ call.table = CONSUMPTION_TABLE
            /\ call.preIncome = Dec(100000, 0)
            /\ call.marital = "married"
            /\ call.childrenUnder23 = 2) => call.ret = Dec(80, 3)

\* the shipped table at 100000, married, two children: 0.080
C6_MarriedTwoAt100k ==
    /\ call.fn = "interpolateConsumption"
    /\ call.table = CONSUMPTION_TABLE
    /\ call.preIncome = Dec(100000, 0)
    /\ call.marital = "married"
    /\ call.childrenUnder23 = 2
    /\ call.ret = Dec(80, 3)

\* C7 (as stated): for any configuration, the horizon taken from the work-life
\* table or from any manually supplied integer year count, the number of rows
\* equals calcYears exactly, and row t has year index t and age startAge + t.
C7_RowsEqualHorizon ==
    /\ Len(results.rows) = CalcYears(st, autoWL)
    /\ \A t \in 1..Len(results.rows) :
           /\ results.rows[t].year = t
           /\ results.rows[t].age = st.ageAtStart + t

\* a manual year count of -1: no row, and a horizon of -1
C7_NegativeHorizon ==
    /\ ~st.useFirmWorklife
    /\ st.years = -1
    /\ CalcYears(st, autoWL) = -1
    /\ Len(results.rows) = 0

\* C8 (as the code behaves): in the before-medical ordering, for every row:
\* unemploymentAdjIncome < incomePlusRet whenever unemploymentFactor > 0 and
\* incomePlusRet > 0, and postTaxProjectedIncome < unemploymentAdjIncome
\* whenever the effective tax rate > 0 and unemploymentAdjIncome > 0.
C8_BeforeMedicalOrderingOfPositiveIncome ==
    st.unemploymentTiming = "before_medical" =>
        \A t \in 1..Len(results.rows) :
            /\ (RatSign(st.unemploymentFactor) > 0
                    /\ RatSign(results.rows[t].incomePlusRet) > 0)
                   => RatLt(results.rows[t].unemploymentAdjIncome,
                            results.rows[t].incomePlusRet)
            /\ (RatSign(results.effTax) > 0
                    /\ RatSign(results.rows[t].unemploymentAdjIncome) > 0)
                   => RatLt(results.rows[t].postTaxProjectedIncome,
                            results.rows[t].unemploymentAdjIncome)

\* C8 (as stated): in the before-medical ordering, for every row:
\* unemploymentAdjIncome < incomePlusRet whenever unemploymentFactor > 0, and
\* postTaxProjectedIncome < unemploymentAdjIncome whenever the effective tax
\* rate > 0.
C8_BeforeMedicalOrdering ==
    st.unemploymentTiming = "before_medical" =>
        \A t \in 1..Len(results.rows) :
            /\ RatSign(st.unemploymentFactor) > 0
                   => RatLt(results.rows[t].unemploymentAdjIncome,
                            results.rows[t].incomePlusRet)
            /\ RatSign(results.effTax) > 0
                   => RatLt(results.rows[t].postTaxProjectedIncome,
                            results.rows[t].unemploymentAdjIncome)

\* a before-medical projection of a positive income other than the default,
\* with a positive unemployment factor and tax rate, strictly ordered
C8_OrderedRowReached ==
    /\ st.unemploymentTiming = "before_medical"
    /\ st.baseIncome = Dec(40000, 0)
    /\ RatSign(st.unemploymentFactor) > 0
    /\ RatSign(results.effTax) > 0
    /\ Len(results.rows) > 0
    /\ RatLt(results.rows[1].unemploymentAdjIncome, results.rows[1].incomePlusRet)
    /\ RatLt(results.rows[1].postTaxProjectedIncome,
             results.rows[1].unemploymentAdjIncome)

\* C9: netPV = max(0, grossPV - offsetsPV): netPV is never negative, is exactly
\* 0 whenever offsetsPV >= grossPV, and equals grossPV - offsetsPV otherwise.
C9_NetPVFloor ==
    /\ RatSign(results.netPV) >= 0
    /\ RatLe(results.pvSum, results.pvOffset) => RatSign(results.netPV) = 0
    /\ RatLt(results.pvOffset, results.pvSum) =>
           RatEq(results.netPV, RatSub(results.pvSum, results.pvOffset))

\* offsets above a positive gross present value: the floor decides
C9_FloorReached ==
    /\ RatSign(results.pvSum) > 0
    /\ RatLt(results.pvSum, results.pvOffset)
    /\ RatSign(results.netPV) = 0

\* C10: the projection is a function of the configuration alone, and after
\* any sequence of configuration changes the memoised result the component
\* holds equals a from-scratch computation on the current configuration (and
\* the memoised work-life lookup a from-scratch lookup): every input read is
\* in the dependency list, no stale result is exposed.
C10_MemoIsFresh ==
    /\ autoWL = lookupWorklife(IntRat(st.ageAtStart))
    /\ results = Results(st, CalcYears(st, autoWL))

\* after two changes, one of them of the ordering (the last entry of the
\* dependency list) and one of a field the projection does not read
C10_RecomputedAndReused ==
    /\ changes = 2
    /\ st.unemploymentTiming = "after_medical"
    /\ st.activeRefTable # DefaultState.activeRefTable
    /\ results # Results(DefaultState, CalcYears(DefaultState, autoWL))

\* the rate the earnings-growth contract names for an integer age
GrowthContract(age, fallback) ==
    IF age >= 18 /\ age <= 51 THEN Dec(AGE_GROWTH[age], 5)
    ELSE IF age >= 52 THEN fallback
    ELSE Dec(3, 2)

\* C11: the tabulated ages are 18..51; ageGrowth returns the tabulated rate for
\* a tabulated age, the fallback passed for an absent age >= 52, and 0.03 for
\* any other absent age whatever fallback is passed. With age-specific growth
\* on, row t carries the rate of age ageAtStart + t (the projection passes no
\* fallback, so the default 0.03 applies from 52 on); with it off, every row
\* carries the fixed rate earningsGrowthFixed.
C11_EarningsGrowthLookup ==
    /\ DOMAIN AGE_GROWTH = 18..51
    /\ call.fn = "ageGrowth" =>
           RatEq(call.ret, GrowthContract(call.age, call.fallback))
    /\ \A t \in 1..Len(results.rows) :
           RatEq(results.rows[t].earnGrowth,
                 IF st.useAgeSpecificGrowth
                 THEN GrowthContract(st.ageAtStart + t, Dec(3, 2))
                 ELSE st.earningsGrowthFixed)

\* a projection from age 50 whose first row is tabulated (51) and whose second
\* is not (52), and a call below the table with a fallback other than 0.03
C11_BelowTableIgnoresFallback ==
    /\ st.ageAtStart = 50
    /\ st.useAgeSpecificGrowth
    /\ Len(results.rows) >= 2
    /\ RatEq(results.rows[1].earnGrowth, Dec(3169, 5))
    /\ RatEq(results.rows[2].earnGrowth, Dec(3, 2))
    /\ call.fn = "ageGrowth"
    /\ call.age = 17
    /\ call.fallback = Dec(5, 2)
    /\ RatEq(call.ret, Dec(3, 2))

\* the age clamped into [25, 70]
ClampAge(age) ==
    IF RatLt(age, Dec(25, 0)) THEN Dec(25, 0)
    ELSE IF RatLt(Dec(70, 0), age) THEN Dec(70, 0)
    ELSE age

\* k is x rounded to the nearest integer, a half going up
NearestInteger(k, x) ==
    /\ RatLe(RatSub(Dec(k, 0), Dec(5, 1)), x)
    /\ RatLt(x, RatAdd(Dec(k, 0), Dec(5, 1)))

\* the rows of the work-life table for the integer age a
WorklifeRows(a) == {i \in 1..Len(WORKLIFE_TABLE) : WORKLIFE_TABLE[i].age = a}

\* C12: for a call lookupWorklife(age): rounding the clamped age and clamping
\* the rounded age give the same integer a in 25..70; the table has exactly
\* one row of age a; the returned years is that row's remaining years rounded
\* to the nearest integer, an integer between 4 and 35; the returned exitAge
\* is age + years rounded to the nearest integer, with age the argument as
\* passed (not clamped, not rounded).
C12_WorklifeLookup ==
    call.fn = "lookupWorklife" =>
        \E a \in 25..70 :
            /\ NearestInteger(a, ClampAge(call.age))
            /\ a = Max(25, Min(70, RatRound(call.age)))
            /\ \E i \in WorklifeRows(a) :
                   /\ WorklifeRows(a) = {i}
                   /\ NearestInteger(call.ret.years, Dec(WORKLIFE_TABLE[i].years, 2))
            /\ call.ret.years \in 4..35
            /\ NearestInteger(call.ret.exitAge,
                              RatAdd(call.age, Dec(call.ret.years, 0)))

\* a call below the table: the row of age 25 (35 years), exit age from 20.5
C12_BelowTableExitAge ==
    /\ call.fn = "lookupWorklife"
    /\ RatEq(call.age, Dec(205, 1))
    /\ call.ret.years = 35
    /\ call.ret.exitAge = 56

\* C13: discountRateAfterTaxForAge(age) is 2.6% for age <= 35, 2.4% for age
\* 36..54 and 2.1% for age >= 55: every integer age falls in exactly one band,
\* the bands meeting at 35/36 and 54/55.
C13_DiscountBands ==
    call.fn = "discountRateAfterTaxForAge" =>
        /\ call.age <= 35 => RatEq(call.ret, Dec(26, 3))
        /\ (call.age >= 36 /\ call.age <= 54) => RatEq(call.ret, Dec(24, 3))
        /\ call.age >= 55 => RatEq(call.ret, Dec(21, 3))
        /\ (call.age <= 35) \/ (call.age >= 36 /\ call.age <= 54) \/ (call.age >= 55)
        /\ ~(call.age <= 35 /\ call.age >= 36) /\ ~(call.age <= 54 /\ call.age >= 55)

\* the last age of the middle band
C13_MiddleBandUpperBoundary ==
    /\ call.fn = "discountRateAfterTaxForAge"
    /\ call.age = 54
    /\ RatEq(call.ret, Dec(24, 3))

\* b to the power k, k >= 0
RECURSIVE RatPow(_, _)
RatPow(b, k) == IF k = 0 THEN One ELSE RatMul(b, RatPow(b, k - 1))

\* pv is amount / (1 + rate)^t
DiscountedAt(pv, amount, rate, t) ==
    RatEq(RatMul(pv, RatPow(RatAdd(One, rate), t)), amount)

\* the tax rate the configuration resolves to: the bracket of the base income,
\* or the manual rate
ResolvedTax ==
    IF st.taxRate.t = "auto"
    THEN Dec(NY_EFFECTIVE_TAX_TABLE[BracketRow(NY_EFFECTIVE_TAX_TABLE, st.baseIncome)].rate, 4)
    ELSE st.taxRate.v

\* the discount rate the configuration resolves to: the band of the starting
\* age, or the manual rate
ResolvedDiscount ==
    IF st.discountOverride.t = "auto"
    THEN CASE st.ageAtStart <= 35 -> Dec(26, 3)
           [] st.ageAtStart >= 36 /\ st.ageAtStart <= 54 -> Dec(24, 3)
           [] st.ageAtStart >= 55 -> Dec(21, 3)
    ELSE st.discountOverride.v

\* C14: the result's effTax is the bracket rate of the base income (auto) or
\* the manual rate, and its disc the band of the starting age (auto) or the
\* manual rate; every row's taxRate is that effTax and every row is discounted
\* at that disc, whatever the row's grown salary and attained age.
C14_RatesResolvedOnce ==
    /\ RatEq(results.effTax, ResolvedTax)
    /\ RatEq(results.disc, ResolvedDiscount)
    /\ \A t \in 1..Len(results.rows) :
           /\ RatEq(results.rows[t].taxRate, ResolvedTax)
           /\ DiscountedAt(results.rows[t].discounted, results.rows[t].postTaxAdjusted,
                           ResolvedDiscount, t)

\* a projection from age 50 with automatic rates whose last row is of an age
\* in the next discount band and of a salary in another tax bracket
C14_LastRowInOtherBandAndBracket ==
    /\ st.ageAtStart = 50
    /\ st.taxRate = Auto
    /\ st.discountOverride = Auto
    /\ Len(results.rows) > 0
    /\ results.rows[Len(results.rows)].age >= 55
    /\ RatEq(results.disc, Dec(24, 3))
    /\ ~RatEq(interpolateTaxRate(results.rows[Len(results.rows)].projectedIncome,
                                 NY_EFFECTIVE_TAX_TABLE),
              results.rows[Len(results.rows)].taxRate)

\* the product of (1 + earnGrowth) over the rows 1..t
RECURSIVE GrowthProduct(_, _)
GrowthProduct(rows, t) ==
    IF t = 0 THEN One
    ELSE RatMul(GrowthProduct(rows, t - 1), RatAdd(One, rows[t].earnGrowth))

\* C15: in row t, projectedIncome = baseIncome x the product over s = 1..t of
\* (1 + the growth rate of row s) and healthContribution = medicalBase x
\* (1 + medicalGrowth)^t; each is the previous row's value (the base for row
\* 1) times that year's (1 + rate); retirement = projectedIncome x
\* retirementPct and incomePlusRet = projectedIncome + retirement.
C15_CompoundingFromYearOne ==
    \A t \in 1..Len(results.rows) :
        /\ RatEq(results.rows[t].projectedIncome,
                 RatMul(st.baseIncome, GrowthProduct(results.rows, t)))
        /\ RatEq(results.rows[t].healthContribution,
                 RatMul(st.medicalBase, RatPow(RatAdd(One, st.medicalGrowth), t)))
        /\ RatEq(results.rows[t].projectedIncome,
                 RatMul(IF t = 1 THEN st.baseIncome
                        ELSE results.rows[t - 1].projectedIncome,
                        RatAdd(One, results.rows[t].earnGrowth)))
        /\ RatEq(results.rows[t].healthContribution,
                 RatMul(IF t = 1 THEN st.medicalBase
                        ELSE results.rows[t - 1].healthContribution,
                        RatAdd(One, st.medicalGrowth)))
        /\ RatEq(results.rows[t].retirement,
                 RatMul(results.rows[t].projectedIncome, st.retirementPct))
        /\ RatEq(results.rows[t].incomePlusRet,
                 RatAdd(results.rows[t].projectedIncome, results.rows[t].retirement))

\* from age 50: year 1 at 100000 x 1.03169 and 7280 x 1.023, year 2 at the
\* year-1 salary x 1.03
C15_YearOneGrown ==
    /\ st.ageAtStart = 50
    /\ Len(results.rows) >= 2
    /\ RatEq(results.rows[1].projectedIncome, Dec(103169, 0))
    /\ RatEq(results.rows[1].healthContribution, Dec(744744, 2))
    /\ RatEq(results.rows[2].projectedIncome, Dec(10626407, 2))

\* the consumption column the contract names for a household
ContractColumn(marital, n) ==
    CASE marital = "single" /\ n = 0 -> "Single0"
      [] marital = "single" /\ n >= 1 -> "Single1Plus"
      [] marital = "married" /\ n = 0 -> "Married0"
      [] marital = "married" /\ n = 1 -> "Married1"
      [] marital = "married" /\ n >= 2 -> "Married2Plus"

\* the automatic consumption rate of year t: the row of the base income, the
\* column of the marital status and of the dependents under 23 at offset t - 1
ContractConsumption(t) ==
    Dec(CONSUMPTION_TABLE[BracketRow(CONSUMPTION_TABLE, st.baseIncome)]
            [ContractColumn(st.marital,
                 Min(2, Cardinality(Under23(<<st.child1Age, st.child2Age>>, t - 1))))],
        3)

\* C16: in wrongful-death mode row t's consumptionRate is the manual rate if
\* the override is on, otherwise the table rate for the base income, the
\* marital status and the dependent count at offset t - 1, and its
\* consumptionAmt is baseIncome x (1 - effTax) x consumptionRate in either
\* ordering, whatever the year's salary; in injury mode both are 0 in every row.
C16_ConsumptionAnchoredToBase ==
    \A t \in 1..Len(results.rows) :
        IF st.mode = "wrongfulDeath"
        THEN /\ RatEq(results.rows[t].consumptionRate,
                      IF st.manualConsumption THEN st.consumptionPct
                      ELSE ContractConsumption(t))
             /\ RatEq(results.rows[t].consumptionAmt,
                      RatMul(RatMul(st.baseIncome, RatSub(One, results.effTax)),
                             results.rows[t].consumptionRate))
        ELSE /\ RatSign(results.rows[t].consumptionRate) = 0
             /\ RatSign(results.rows[t].consumptionAmt) = 0

\* wrongful death, legacy ordering, a dependent aged 18: counted in years
\* 1..5 (rate 0.105), not from year 6 on (rate 0.155), the dollars following
\* the rate on the same base while the salary grows
C16_DependentAgesOut ==
    /\ st.mode = "wrongfulDeath"
    /\ st.unemploymentTiming = "after_medical"
    /\ ~st.manualConsumption
    /\ Len(results.rows) >= 6
    /\ RatEq(results.rows[5].consumptionRate, Dec(105, 3))
    /\ RatEq(results.rows[6].consumptionRate, Dec(155, 3))
    /\ RatLt(results.rows[5].consumptionAmt, results.rows[6].consumptionAmt)
    /\ RatLt(results.rows[5].projectedIncome, results.rows[6].projectedIncome)

\* C17: in the after-medical ordering every row has postTax = incomePlusRet x
\* (1 - effTax), afterConsumption = postTax - consumptionDollars, subtotal =
\* (afterConsumption + medical) x (1 - unemploymentFactor), and the reported
\* unemployment-adjusted figure equal to that subtotal.
C17_AfterMedicalOrdering ==
    st.unemploymentTiming = "after_medical" =>
        \A t \in 1..Len(results.rows) :
            /\ RatEq(results.rows[t].postTaxProjectedIncome,
                     RatMul(results.rows[t].incomePlusRet, RatSub(One, results.effTax)))
            /\ RatEq(results.rows[t].incomeLessConsumption,
                     RatSub(results.rows[t].postTaxProjectedIncome,
                            results.rows[t].consumptionAmt))
            /\ RatEq(results.rows[t].postTaxAdjusted,
                     RatMul(RatAdd(results.rows[t].incomeLessConsumption,
                                   results.rows[t].healthContribution),
                            RatSub(One, st.unemploymentFactor)))
            /\ RatEq(results.rows[t].unemploymentAdjIncome,
                     results.rows[t].postTaxAdjusted)

\* a legacy projection with a positive unemployment factor and medical
\* contribution: the subtotal is below afterConsumption + medical
C17_MedicalReduced ==
    /\ st.unemploymentTiming = "after_medical"
    /\ RatSign(st.unemploymentFactor) > 0
    /\ Len(results.rows) > 0
    /\ RatSign(results.rows[1].healthContribution) > 0
    /\ RatLt(results.rows[1].postTaxAdjusted,
             RatAdd(results.rows[1].incomeLessConsumption,
                    results.rows[1].healthContribution))
    /\ RatEq(results.rows[1].unemploymentAdjIncome, results.rows[1].postTaxAdjusted)

\* the sum over t = 1..n of a x b^(n - t)
RECURSIVE AccumulatedSum(_, _, _)
AccumulatedSum(a, b, n) ==
    IF n = 0 THEN Zero ELSE RatAdd(RatMul(AccumulatedSum(a, b, n - 1), b), a)

\* x is the sum over t = 1..n of a / (1 + rate)^t
PeriodicSumIs(x, a, rate, n) ==
    RatEq(RatMul(x, RatPow(RatAdd(One, rate), n)),
          AccumulatedSum(a, RatAdd(One, rate), n))

RECURSIVE DiscountedSum(_, _)
DiscountedSum(rows, n) ==
    IF n = 0 THEN Zero ELSE RatAdd(DiscountedSum(rows, n - 1), rows[n].discounted)

\* C19: every row's discounted value is its pre-discount subtotal divided by
\* (1 + disc)^t, t the row's year index, and pvSum is the sum of the
\* discounted values of the rows returned, 0 when there is no row.
C19_GrossPVIsSumOfRows ==
    /\ \A i \in 1..Len(results.rows) :
           DiscountedAt(results.rows[i].discounted, results.rows[i].postTaxAdjusted,
                        results.disc, results.rows[i].year)
    /\ RatEq(results.pvSum, DiscountedSum(results.rows, Len(results.rows)))
    /\ Len(results.rows) = 0 => RatSign(results.pvSum) = 0

\* a manual discount rate of 3%: year 2 discounted by 1.0609, a positive total
C19_SecondYearDiscounted ==
    /\ st.discountOverride = Num(Dec(3, 2))
    /\ Len(results.rows) >= 2
    /\ results.rows[2].year = 2
    /\ RatEq(RatMul(results.rows[2].discounted, Dec(10609, 4)),
             results.rows[2].postTaxAdjusted)
    /\ RatLt(results.rows[2].discounted, results.pvSum)

\* the configuration with the household inputs at their initial values
HouseholdReset(c) ==
    [c EXCEPT !.marital = DefaultState.marital,
              !.child1Age = DefaultState.child1Age,
              !.child2Age = DefaultState.child2Age,
              !.manualConsumption = DefaultState.manualConsumption,
              !.consumptionPct = DefaultState.consumptionPct]

\* C20: in injury mode the results are those of the configuration with the
\* household inputs (marital status, dependent ages, manual-consumption switch
\* and percentage) reset; hence two injury configurations that differ only in
\* these inputs have identical rows, grossPV, offsetsPV and netPV.
C20_InjuryIgnoresHousehold ==
    st.mode = "injury" =>
        results = Results(HouseholdReset(st), CalcYears(st, autoWL))

\* an injury projection of a household other than the initial one
C20_InjuryWithOtherHousehold ==
    /\ st.mode = "injury"
    /\ HouseholdReset(st) # st
    /\ Len(results.rows) > 0

\* the argument of the call is the integer a
CalledWithAge(a) == call.fn = "lookupWorklife" /\ RatEq(call.age, Dec(a, 0))

\* C22: for every integer age in 25..70, the exitAge lookupWorklife returns
\* (age + rounded remaining years, rounded) is the exit column of the table
\* row of that age; a difference between the two needs an age outside
\* [25, 70] or an age that is not an integer.
C22_ExitAgeIsTableColumn ==
    \A a \in 25..70 :
        CalledWithAge(a) =>
            \A i \in WorklifeRows(a) : call.ret.exitAge = WORKLIFE_TABLE[i].exit

\* age 29: 31.51 remaining years round up to 32, exit age 61 as in the table
C22_RoundedUpAt29 ==
    /\ CalledWithAge(29)
    /\ call.ret.years = 32
    /\ call.ret.exitAge = 61
    /\ \E i \in WorklifeRows(29) : WORKLIFE_TABLE[i].exit = 61

\* the results of the current configuration under the given ordering
ResultsUnder(timing) ==
    IF st.unemploymentTiming = timing THEN results
    ELSE Results([st EXCEPT !.unemploymentTiming = timing], CalcYears(st, autoWL))

\* year by year, for the rows of the two orderings of one configuration: the
\* difference of the subtotals is u x (medical - consumption dollars), with
\* what follows from it for the sign of the difference
OrderingsDifferBy(before, after, u) ==
    /\ Len(before) = Len(after)
    /\ \A t \in 1..Len(before) :
           /\ RatEq(before[t].healthContribution, after[t].healthContribution)
           /\ RatEq(before[t].consumptionAmt, after[t].consumptionAmt)
           /\ RatEq(RatSub(before[t].postTaxAdjusted, after[t].postTaxAdjusted),
                    RatMul(u, RatSub(before[t].healthContribution,
                                     before[t].consumptionAmt)))
           /\ RatEq(before[t].postTaxAdjusted, after[t].postTaxAdjusted)
                  <=> (RatSign(u) = 0
                          \/ RatEq(before[t].healthContribution,
                                   before[t].consumptionAmt))
           /\ RatSign(u) > 0 =>
                  (RatLt(after[t].postTaxAdjusted, before[t].postTaxAdjusted)
                      <=> RatLt(before[t].consumptionAmt,
                                before[t].healthContribution))

\* C21: for the current configuration and the one that differs from it only
\* in the ordering, in every year the before-medical subtotal minus the
\* after-medical subtotal is unemploymentFactor x (medical - consumption
\* dollars); the subtotals are equal exactly when unemploymentFactor = 0 or
\* medical = consumption dollars, and with unemploymentFactor > 0 the
\* before-medical one is the larger exactly when medical exceeds the
\* consumption dollars.
C21_OrderingsDifferByFactorOfMedicalLessConsumption ==
    OrderingsDifferBy(ResultsUnder("before_medical").rows,
                      ResultsUnder("after_medical").rows,
                      st.unemploymentFactor)

\* the legacy ordering in injury mode (no consumption, a positive medical
\* contribution and factor): its subtotal is below the before-medical one
C21_BeforeMedicalLargerInInjury ==
    /\ st.mode = "injury"
    /\ st.unemploymentTiming = "after_medical"
    /\ RatSign(st.unemploymentFactor) > 0
    /\ Len(results.rows) > 0
    /\ RatSign(results.rows[1].healthContribution) > 0
    /\ RatLt(results.rows[1].postTaxAdjusted,
             ResultsUnder("before_medical").rows[1].postTaxAdjusted)
=============================================================================
